---- MODULE Spec2Model ----
(***************************************************************************)
(* Verification model of the GTD backend (avivsarig/gtd): the entity       *)
(* lifecycle rules of the controllers and repositories over the relational *)
(* store defined by the Alembic migrations.                                *)
(*                                                                         *)
(* Rows are never hard-deleted, so every table is a sequence of rows and a *)
(* row's id is its index.  Id 0 is None; an id above the table's length is *)
(* an id that does not resolve.  Timestamps are readings of the clock      *)
(* `now` (1..MaxTime); timestamp 0 is NULL.  A text is a sequence of       *)
(* characters; NullText is the SQL NULL / Python None of a text column.    *)
(***************************************************************************)
EXTENDS Integers, Sequences, FiniteSets, TLC

\* ------------------------------------------------------------------ bounds
MaxTime == 2
MaxTasks == 2
MaxBulk == 3
MaxContexts == 3
MaxRows == 2
MaxInbox == 1
MaxProjects == 1
MaxNotes == 1
MaxDerived == 2
MaxListed == 3

\* --------------------------------------------------------------- constants
None == 0
NullText == <<"NULL">>
NoStatus == "none"

\* schemas/task.py, schemas/note.py, schemas/project.py: Field(max_length=...)
TaskTitleMax == 500
NoteTitleMax == 200
ProjectNameMax == 200

VARIABLES now, tasks, projects, notes, contexts, inbox, last, pc, sess

vars == <<now, tasks, projects, notes, contexts, inbox, last, pc, sess>>

store == <<tasks, projects, notes, contexts, inbox>>

\* ------------------------------------------------------------ task schemas
\* schemas/task.py TaskStatus
TaskStatus == {"next", "waiting", "someday"}

\* the status values the tasks table accepts (CHECK valid_status)
valid_status == {"next", "waiting", "someday", "completed", "archived"}

Titles == {<<"a">>, <<"b">>}

\* what a createTask request may carry for status: a TaskStatus or nothing
StatusInputs == TaskStatus \cup {"default"}

\* ids a request can name: the rows that may exist, and one that never does
TaskIds == 1..(MaxTasks + 1)

\* TaskCreate(...): the schema object built from a request body; an absent
\* status takes the field default TaskStatus.NEXT
TaskCreate(title, statusIn, project_id, blocked_by_task_id) ==
    [title |-> title,
     status |-> IF statusIn = "default" THEN "next" ELSE statusIn,
     project_id |-> project_id,
     blocked_by_task_id |-> blocked_by_task_id]

\* TaskUpdate: every field defaults to None; fields_set is pydantic's
\* model_fields_set, the fields the request body (or a later assignment)
\* supplied
TaskUpdateFields == {"title", "status", "project_id", "blocked_by_task_id"}

TaskUpdate ==
    {p \in [fields_set : SUBSET TaskUpdateFields,
            title : Titles \cup {NullText},
            status : TaskStatus \cup {NoStatus},
            project_id : {None, 1},
            blocked_by_task_id : {None} \cup TaskIds] :
        /\ ("title" \notin p.fields_set => p.title = NullText)
        /\ ("status" \notin p.fields_set => p.status = NoStatus)
        /\ ("project_id" \notin p.fields_set => p.project_id = None)
        /\ ("blocked_by_task_id" \notin p.fields_set => p.blocked_by_task_id = None)}

\* --------------------------------------------------------------- the store
\* (a lookup that forgets the deleted_at test)
LiveIgnoringDeleted(table, id) == id \in 1..Len(table)

\* BaseRepository.get_by_id: the row, when it exists and is not soft-deleted
Live(table, id) == id \in 1..Len(table) /\ table[id].deleted_at = None

\* (a lookup that returns soft-deleted rows too)
get_by_id_any(table, id) == IF id \in 1..Len(table) THEN id ELSE None

get_by_id(table, id) == IF Live(table, id) THEN id ELSE None

\* BaseRepository.get_all(include_deleted=False): the ids of the listing
get_all(table) == {id \in 1..Len(table) : table[id].deleted_at = None}

\* (a listing that ignores include_processed)
inbox_get_all_processed_too(table, include_processed) ==
    {id \in 1..Len(table) : table[id].deleted_at = None}

\* InboxRepository.get_all(include_processed, include_deleted=False)
inbox_get_all(table, include_processed) ==
    {id \in 1..Len(table) : /\ (include_processed \/ table[id].processed_at = None)
                            /\ table[id].deleted_at = None}

\* the tasks table's constraints, checked by the store at commit:
\* NOT NULL title and status, CHECK valid_status, and the two foreign keys
TaskRowOK(row, tbl, prj) ==
    /\ row.title # NullText
    /\ row.status \in valid_status
    /\ (row.project_id = None \/ row.project_id \in 1..Len(prj))
    /\ (row.blocked_by_task_id = None \/ row.blocked_by_task_id \in 1..Len(tbl))

\* trigger task_activity_updates_project: AFTER INSERT OR UPDATE ON tasks,
\* UPDATE projects SET last_activity_at = NOW() WHERE id = NEW.project_id
update_project_last_activity(prj, project_id) ==
    IF project_id \in 1..Len(prj)
    THEN [prj EXCEPT ![project_id].last_activity_at = now]
    ELSE prj

Outcome(op, id, arg, result, ret) ==
    [op |-> op, id |-> id, arg |-> arg, result |-> result, ret |-> ret]

\* ---------------------------------------------------------- task_controller
\* (create_task without the blocker rule)
create_task_norule(task_data) == task_data

\* create_task: a blocker forces status 'waiting'
create_task_rule(task_data) ==
    IF task_data.blocked_by_task_id # None
    THEN [task_data EXCEPT !.status = "waiting"]
    ELSE task_data

\* TaskRepository.create: the inserted row (timestamps by server default)
NewTaskRow(task_data) ==
    [title |-> task_data.title,
     status |-> task_data.status,
     project_id |-> task_data.project_id,
     blocked_by_task_id |-> task_data.blocked_by_task_id,
     updated_at |-> now,
     completed_at |-> None,
     deleted_at |-> None]

\* the store's effect of create_task(task_data), as <<tasks', projects', result, id>>
DoCreateTask(task_data) ==
    LET row == NewTaskRow(create_task_rule(task_data)) IN
    IF TaskRowOK(row, tasks, projects)
    THEN <<Append(tasks, row),
           update_project_last_activity(projects, row.project_id),
           "ok", Len(tasks) + 1>>
    ELSE <<tasks, projects, "StoreError", None>>

CreateTask(title, statusIn, project_id, blocked_by_task_id) ==
    /\ LET r == DoCreateTask(TaskCreate(title, statusIn, project_id, blocked_by_task_id)) IN
        /\ tasks' = r[1]
        /\ projects' = r[2]
        /\ last' = Outcome("createTask", r[4],
                           [status |-> statusIn, blocker |-> blocked_by_task_id # None],
                           r[3], <<>>)
    /\ UNCHANGED <<now, notes, contexts, inbox, pc, sess>>

\* (update_task forcing 'waiting' only when the patch carries no status)
update_task_keeps_status(task_data) ==
    IF task_data.blocked_by_task_id # None /\ "status" \notin task_data.fields_set
    THEN [task_data EXCEPT !.status = "waiting", !.fields_set = @ \cup {"status"}]
    ELSE task_data

\* update_task: a non-null blocker in the patch forces status 'waiting'
\* (the assignment also puts status into model_fields_set)
update_task_rule(task_data) ==
    IF task_data.blocked_by_task_id # None
    THEN [task_data EXCEPT !.status = "waiting", !.fields_set = @ \cup {"status"}]
    ELSE task_data

\* TaskRepository.update: setattr for every field of model_dump(exclude_unset=True)
ApplyTaskUpdate(row, p) ==
    [row EXCEPT
        !.title = IF "title" \in p.fields_set THEN p.title ELSE @,
        !.status = IF "status" \in p.fields_set THEN p.status ELSE @,
        !.project_id = IF "project_id" \in p.fields_set THEN p.project_id ELSE @,
        !.blocked_by_task_id =
            IF "blocked_by_task_id" \in p.fields_set THEN p.blocked_by_task_id ELSE @]

\* the flush emits an UPDATE only for attributes whose new value differs from
\* the loaded one; a UUID column assigned its str form always differs
TaskUpdateDirty(row, p) ==
    \/ ApplyTaskUpdate(row, p) # row
    \/ ("project_id" \in p.fields_set /\ p.project_id # None)
    \/ ("blocked_by_task_id" \in p.fields_set /\ p.blocked_by_task_id # None)

\* trigger update_tasks_updated_at (BEFORE UPDATE ON tasks) and the
\* project-activity trigger, applied to an UPDATE of row id
TaskRowUpdated(id, row) ==
    /\ tasks' = [tasks EXCEPT ![id] = [row EXCEPT !.updated_at = now]]
    /\ projects' = update_project_last_activity(projects, row.project_id)

UpdateTask(task_id, patch) ==
    /\ LET task == get_by_id(tasks, task_id)
           task_data == update_task_rule(patch)
           arg == [status |-> patch.status,
                   blocker |-> patch.blocked_by_task_id # None] IN
        IF task = None
        THEN /\ UNCHANGED <<tasks, projects>>
             /\ last' = Outcome("updateTask", task_id, <<>>, "NotFound", <<>>)
        ELSE LET row == ApplyTaskUpdate(tasks[task], task_data) IN
             IF ~TaskUpdateDirty(tasks[task], task_data)
             THEN /\ UNCHANGED <<tasks, projects>>
                  /\ last' = Outcome("updateTask", task_id, arg, "ok", <<>>)
             ELSE IF TaskRowOK(row, tasks, projects)
             THEN /\ TaskRowUpdated(task, row)
                  /\ last' = Outcome("updateTask", task_id, arg, "ok", <<>>)
             ELSE /\ UNCHANGED <<tasks, projects>>
                  /\ last' = Outcome("updateTask", task_id, arg, "StoreError", <<>>)
    /\ UNCHANGED <<now, notes, contexts, inbox, pc, sess>>

\* delete_task: TaskRepository.soft_delete stamps deleted_at
DeleteTask(task_id) ==
    /\ LET task == get_by_id(tasks, task_id) IN
        IF task = None
        THEN /\ UNCHANGED <<tasks, projects>>
             /\ last' = Outcome("deleteTask", task_id, <<>>, "NotFound", <<>>)
        ELSE /\ TaskRowUpdated(task, [tasks[task] EXCEPT !.deleted_at = now])
             /\ last' = Outcome("deleteTask", task_id, <<>>, "ok", <<>>)
    /\ UNCHANGED <<now, notes, contexts, inbox, pc, sess>>

\* (a completion that keeps the first completed_at)
update_task_field_once(op, task_id, field_value) ==
    /\ LET task == get_by_id(tasks, task_id) IN
        IF task = None
        THEN /\ UNCHANGED <<tasks, projects>>
             /\ last' = Outcome(op, task_id, <<>>, "NotFound", <<>>)
        ELSE /\ IF tasks[task].completed_at = field_value
                   \/ (tasks[task].completed_at # None /\ field_value # None)
                THEN UNCHANGED <<tasks, projects>>
                ELSE TaskRowUpdated(task, [tasks[task] EXCEPT !.completed_at = field_value])
             /\ last' = Outcome(op, task_id, <<>>, "ok", <<>>)
    /\ UNCHANGED <<now, notes, contexts, inbox, pc, sess>>

\* _update_task_field(db, task_id, "completed_at", field_value)
update_task_field(op, task_id, field_value) ==
    /\ LET task == get_by_id(tasks, task_id) IN
        IF task = None
        THEN /\ UNCHANGED <<tasks, projects>>
             /\ last' = Outcome(op, task_id, <<>>, "NotFound", <<>>)
        ELSE /\ IF tasks[task].completed_at = field_value
                THEN UNCHANGED <<tasks, projects>>
                ELSE TaskRowUpdated(task, [tasks[task] EXCEPT !.completed_at = field_value])
             /\ last' = Outcome(op, task_id, <<>>, "ok", <<>>)
    /\ UNCHANGED <<now, notes, contexts, inbox, pc, sess>>

CompleteTask(task_id) == update_task_field("completeTask", task_id, now)

UncompleteTask(task_id) == update_task_field("uncompleteTask", task_id, None)

\* (bulk_update_status looking rows up without the deleted_at test)
RECURSIVE BulkLoopDeletedToo(_, _, _, _)
BulkLoopDeletedToo(tbl, task_ids, status, updated_tasks) ==
    IF task_ids = <<>>
    THEN <<tbl, updated_tasks>>
    ELSE LET task == Head(task_ids) IN
         IF task \in 1..Len(tbl)
         THEN BulkLoopDeletedToo([tbl EXCEPT ![task].status = status, ![task].updated_at = now],
                                 Tail(task_ids), status, Append(updated_tasks, task))
         ELSE BulkLoopDeletedToo(tbl, Tail(task_ids), status, updated_tasks)

\* bulk_update_status: the loop over task_ids, then one commit
RECURSIVE BulkLoop(_, _, _, _)
BulkLoop(tbl, task_ids, status, updated_tasks) ==
    IF task_ids = <<>>
    THEN <<tbl, updated_tasks>>
    ELSE LET task == get_by_id(tbl, Head(task_ids)) IN
         IF task # None
         THEN BulkLoop([tbl EXCEPT ![task].status = status, ![task].updated_at = now],
                       Tail(task_ids), status, Append(updated_tasks, task))
         ELSE BulkLoop(tbl, Tail(task_ids), status, updated_tasks)

RECURSIVE TouchProjects(_, _, _)
TouchProjects(prj, tbl, ids) ==
    IF ids = <<>> THEN prj
    ELSE TouchProjects(update_project_last_activity(prj, tbl[Head(ids)].project_id),
                       tbl, Tail(ids))

BulkUpdateStatus(task_ids, status) ==
    /\ LET r == BulkLoop(tasks, task_ids, status, <<>>) IN
        /\ tasks' = r[1]
        /\ projects' = TouchProjects(projects, tasks, r[2])
        /\ last' = Outcome("bulkUpdateStatus", None,
                           [ids |-> task_ids, status |-> status], "ok", r[2])
    /\ UNCHANGED <<now, notes, contexts, inbox, pc, sess>>

\* ------------------------------------------------------- project_controller
ProjectStatus == {"active", "on_hold", "completed"}

Names == {<<"p">>, <<"q">>}

\* ProjectUpdate, with pydantic's model_fields_set
ProjectUpdate ==
    {p \in [fields_set : SUBSET {"name", "status"},
            name : Names \cup {NullText},
            status : ProjectStatus \cup {NoStatus}] :
        /\ ("name" \notin p.fields_set => p.name = NullText)
        /\ ("status" \notin p.fields_set => p.status = NoStatus)}

\* the projects table's constraints: NOT NULL name and status
ProjectRowOK(row) == row.name # NullText /\ row.status # NoStatus

\* create_project: BaseRepository.create, then last_activity_at = created_at
NewProjectRow(name) ==
    [name |-> name, status |-> "active", updated_at |-> now, completed_at |-> None,
     last_activity_at |-> now, deleted_at |-> None]

CreateProject(name) ==
    /\ projects' = Append(projects, NewProjectRow(name))
    /\ last' = Outcome("createProject", Len(projects) + 1, <<>>, "ok", <<>>)
    /\ UNCHANGED <<now, tasks, notes, contexts, inbox, pc, sess>>

\* (an update_project that stamps completed_at on every move to completed)
update_project_restamp(row, p) ==
    [row EXCEPT
        !.completed_at = IF p.status = "completed" THEN now ELSE @,
        !.last_activity_at = now]

\* update_project: completed_at on the first move to completed, a fresh
\* last_activity_at, then ProjectRepository.update
update_project_rule(row, p) ==
    [row EXCEPT
        !.completed_at = IF p.status = "completed" /\ @ = None THEN now ELSE @,
        !.last_activity_at = now]

\* (an update that clears completed_at when the status leaves 'completed')
ApplyProjectUpdateReopening(row, p) ==
    [row EXCEPT
        !.name = IF "name" \in p.fields_set THEN p.name ELSE @,
        !.status = IF "status" \in p.fields_set THEN p.status ELSE @,
        !.completed_at = IF "status" \in p.fields_set /\ p.status # "completed"
                         THEN None ELSE @,
        !.updated_at = now]

\* ProjectRepository.update: setattr for every field of
\* model_dump(exclude_unset=True), then updated_at
ApplyProjectUpdate(row, p) ==
    [row EXCEPT
        !.name = IF "name" \in p.fields_set THEN p.name ELSE @,
        !.status = IF "status" \in p.fields_set THEN p.status ELSE @,
        !.updated_at = now]

UpdateProject(project_id, patch) ==
    /\ LET project == get_by_id(projects, project_id) IN
        IF project = None
        THEN /\ UNCHANGED projects
             /\ last' = Outcome("updateProject", project_id, <<>>, "NotFound", <<>>)
        ELSE LET row == ApplyProjectUpdate(update_project_rule(projects[project], patch), patch) IN
             IF ProjectRowOK(row)
             THEN /\ projects' = [projects EXCEPT ![project] = row]
                  /\ last' = Outcome("updateProject", project_id, patch.status, "ok", <<>>)
             ELSE /\ UNCHANGED projects
                  /\ last' = Outcome("updateProject", project_id, patch.status,
                                     "StoreError", <<>>)
    /\ UNCHANGED <<now, tasks, notes, contexts, inbox, pc, sess>>

\* delete_project: ProjectRepository.soft_delete (the UPDATE fires the
\* updated_at trigger)
DeleteProject(project_id) ==
    /\ LET project == get_by_id(projects, project_id) IN
        IF project = None
        THEN /\ UNCHANGED projects
             /\ last' = Outcome("deleteProject", project_id, <<>>, "NotFound", <<>>)
        ELSE /\ projects' = [projects EXCEPT ![project].deleted_at = now,
                                             ![project].updated_at = now]
             /\ last' = Outcome("deleteProject", project_id, <<>>, "ok", <<>>)
    /\ UNCHANGED <<now, tasks, notes, contexts, inbox, pc, sess>>

\* (a complete_project that keeps the first completed_at)
CompleteProjectOnce(project_id) ==
    /\ LET project == get_by_id(projects, project_id) IN
        IF project = None
        THEN /\ UNCHANGED projects
             /\ last' = Outcome("completeProject", project_id, <<>>, "NotFound", <<>>)
        ELSE /\ projects' = [projects EXCEPT
                                ![project].completed_at = IF @ = None THEN now ELSE @,
                                ![project].status = "completed",
                                ![project].last_activity_at = now,
                                ![project].updated_at = now]
             /\ last' = Outcome("completeProject", project_id, <<>>, "ok", <<>>)
    /\ UNCHANGED <<now, tasks, notes, contexts, inbox, pc, sess>>

\* complete_project: unconditional completed_at, status and last_activity_at
CompleteProject(project_id) ==
    /\ LET project == get_by_id(projects, project_id) IN
        IF project = None
        THEN /\ UNCHANGED projects
             /\ last' = Outcome("completeProject", project_id, <<>>, "NotFound", <<>>)
        ELSE /\ projects' = [projects EXCEPT ![project].completed_at = now,
                                             ![project].status = "completed",
                                             ![project].last_activity_at = now,
                                             ![project].updated_at = now]
             /\ last' = Outcome("completeProject", project_id, <<>>, "ok", <<>>)
    /\ UNCHANGED <<now, tasks, notes, contexts, inbox, pc, sess>>

\* ---------------------------------------------------------- note_controller
\* the notes table's constraints: NOT NULL title, foreign key project_id
NoteRowOK(row, prj) ==
    /\ row.title # NullText
    /\ (row.project_id = None \/ row.project_id \in 1..Len(prj))

\* note_repository.create: the inserted row
NewNoteRow(title, content, project_id) ==
    [title |-> title, content |-> content, project_id |-> project_id,
     updated_at |-> now, deleted_at |-> None]

\* the store's effect of create_note, as <<notes', result, id>>
DoCreateNote(title, content, project_id) ==
    LET row == NewNoteRow(title, content, project_id) IN
    IF NoteRowOK(row, projects)
    THEN <<Append(notes, row), "ok", Len(notes) + 1>>
    ELSE <<notes, "StoreError", None>>

CreateNote(title, content, project_id) ==
    /\ LET r == DoCreateNote(title, content, project_id) IN
        /\ notes' = r[1]
        /\ last' = Outcome("createNote", r[3], <<>>, r[2], <<>>)
    /\ UNCHANGED <<now, tasks, projects, contexts, inbox, pc, sess>>

\* NoteUpdate, with pydantic's model_fields_set
NoteUpdate ==
    {p \in [fields_set : SUBSET {"title"}, title : Titles \cup {NullText}] :
        "title" \notin p.fields_set => p.title = NullText}

\* update_note: note_repository.update sets the patch's fields and updated_at
UpdateNote(note_id, patch) ==
    /\ LET note == get_by_id(notes, note_id) IN
        IF note = None
        THEN /\ UNCHANGED notes
             /\ last' = Outcome("updateNote", note_id, <<>>, "NotFound", <<>>)
        ELSE LET row == [notes[note] EXCEPT
                            !.title = IF "title" \in patch.fields_set THEN patch.title ELSE @,
                            !.updated_at = now] IN
             IF NoteRowOK(row, projects)
             THEN /\ notes' = [notes EXCEPT ![note] = row]
                  /\ last' = Outcome("updateNote", note_id, <<>>, "ok", <<>>)
             ELSE /\ UNCHANGED notes
                  /\ last' = Outcome("updateNote", note_id, <<>>, "StoreError", <<>>)
    /\ UNCHANGED <<now, tasks, projects, contexts, inbox, pc, sess>>

\* (a delete that stamps deleted_at on any stored note, deleted or not)
DeleteNoteAgain(note_id) ==
    /\ LET note == get_by_id_any(notes, note_id) IN
        IF note = None
        THEN /\ UNCHANGED notes
             /\ last' = Outcome("deleteNote", note_id, <<>>, "NotFound", <<>>)
        ELSE /\ notes' = [notes EXCEPT ![note].deleted_at = now, ![note].updated_at = now]
             /\ last' = Outcome("deleteNote", note_id, <<>>, "ok", <<>>)
    /\ UNCHANGED <<now, tasks, projects, contexts, inbox, pc, sess>>

\* delete_note: note_repository.soft_delete
DeleteNote(note_id) ==
    /\ LET note == get_by_id(notes, note_id) IN
        IF note = None
        THEN /\ UNCHANGED notes
             /\ last' = Outcome("deleteNote", note_id, <<>>, "NotFound", <<>>)
        ELSE /\ notes' = [notes EXCEPT ![note].deleted_at = now, ![note].updated_at = now]
             /\ last' = Outcome("deleteNote", note_id, <<>>, "ok", <<>>)
    /\ UNCHANGED <<now, tasks, projects, contexts, inbox, pc, sess>>

\* --------------------------------------------------------- inbox_controller
Contents == {<<"a">>}

\* ids an inbox request can name
InboxIds == 1..(MaxInbox + 1)

\* InboxRepository.create
CreateInboxItem(content) ==
    /\ inbox' = Append(inbox, [content |-> content, created_at |-> now,
                               processed_at |-> None, deleted_at |-> None])
    /\ last' = Outcome("createInboxItem", Len(inbox) + 1, <<>>, "ok", <<>>)
    /\ UNCHANGED <<now, tasks, projects, notes, contexts, pc, sess>>

\* update_inbox_item: InboxRepository.update replaces the content
UpdateInboxItem(item_id, content) ==
    /\ LET item == get_by_id(inbox, item_id) IN
        IF item = None
        THEN /\ UNCHANGED inbox
             /\ last' = Outcome("updateInboxItem", item_id, <<>>, "NotFound", <<>>)
        ELSE /\ inbox' = [inbox EXCEPT ![item].content = content]
             /\ last' = Outcome("updateInboxItem", item_id, <<>>, "ok", <<>>)
    /\ UNCHANGED <<now, tasks, projects, notes, contexts, pc, sess>>

\* delete_inbox_item: BaseRepository.soft_delete
DeleteInboxItem(item_id) ==
    /\ LET item == get_by_id(inbox, item_id) IN
        IF item = None
        THEN /\ UNCHANGED inbox
             /\ last' = Outcome("deleteInboxItem", item_id, <<>>, "NotFound", <<>>)
        ELSE /\ inbox' = [inbox EXCEPT ![item].deleted_at = now]
             /\ last' = Outcome("deleteInboxItem", item_id, <<>>, "ok", <<>>)
    /\ UNCHANGED <<now, tasks, projects, notes, contexts, pc, sess>>

\* (a listing ordered newest first, as the task listing is)
list_inbox_items_desc(table, include_processed) ==
    LET ids == inbox_get_all(table, include_processed)
        n == Cardinality(ids) IN
    {l \in [1..n -> ids] :
        /\ \A i, j \in 1..n : i # j => l[i] # l[j]
        /\ \A i, j \in 1..n : i < j => table[l[i]].created_at >= table[l[j]].created_at}

\* list_inbox_items: InboxRepository.get_all(...).order_by(created_at.asc()),
\* the rows in any order the store may return them in: created_at ascending,
\* rows of equal created_at in either order
list_inbox_items(table, include_processed) ==
    LET ids == inbox_get_all(table, include_processed)
        n == Cardinality(ids) IN
    {l \in [1..n -> ids] :
        /\ \A i, j \in 1..n : i # j => l[i] # l[j]
        /\ \A i, j \in 1..n : i < j => table[l[i]].created_at <= table[l[j]].created_at}

\* GET /inbox: the listing request
ListInboxItems(include_processed) ==
    /\ \E l \in list_inbox_items(inbox, include_processed) :
          last' = Outcome("listInboxItems", None, include_processed, "ok", l)
    /\ UNCHANGED <<now, tasks, projects, notes, contexts, inbox, pc, sess>>

\* InboxRepository.count_unprocessed
count_unprocessed(table) ==
    Cardinality({id \in 1..Len(table) :
                    table[id].processed_at = None /\ table[id].deleted_at = None})

\* (a mark_processed that keeps an earlier stamp)
mark_processed_once(tbl, item) ==
    IF tbl[item].processed_at # None THEN tbl ELSE [tbl EXCEPT ![item].processed_at = now]

\* InboxRepository.mark_processed
mark_processed(tbl, item) == [tbl EXCEPT ![item].processed_at = now]

\* Python's `x or y` on an optional text
TextOr(x, y) == IF x = NullText \/ x = <<>> THEN y ELSE x

\* s[:n]
Truncate(s, n) == SubSeq(s, 1, IF Len(s) < n THEN Len(s) ELSE n)

\* pydantic Field(min_length=1, max_length=n) on a required text
ValidText(s, n) == s # NullText /\ Len(s) >= 1 /\ Len(s) <= n

\* convert_to_task: TaskCreate(title = override or content), create_task,
\* then mark_processed
ConvertToTask(item_id, title, project_id) ==
    /\ LET item == get_by_id(inbox, item_id) IN
        IF item = None
        THEN /\ UNCHANGED <<tasks, projects, inbox>>
             /\ last' = Outcome("convertToTask", item_id, <<>>, "NotFound", <<>>)
        ELSE LET t == TextOr(title, inbox[item].content) IN
             IF ~ValidText(t, TaskTitleMax)
             THEN /\ UNCHANGED <<tasks, projects, inbox>>
                  /\ last' = Outcome("convertToTask", item_id, <<>>, "ValidationError", <<>>)
             ELSE LET r == DoCreateTask(TaskCreate(t, "default", project_id, None)) IN
                  /\ tasks' = r[1]
                  /\ projects' = r[2]
                  /\ inbox' = IF r[3] = "ok" THEN mark_processed(inbox, item) ELSE inbox
                  /\ last' = Outcome("convertToTask", item_id, <<>>, r[3], <<r[4]>>)
    /\ UNCHANGED <<now, notes, contexts, pc, sess>>

\* inbox_controller.py: lines[0][:50] and str(item.content)[:200]
NoteTitleCut == 50
ProjectNameCut == 200

\* str.split("\n", 1)[0]: the text before the first newline
FirstLine(s) ==
    IF \E i \in 1..Len(s) : s[i] = "\n"
    THEN SubSeq(s, 1, (CHOOSE i \in 1..Len(s) :
                          s[i] = "\n" /\ \A j \in 1..(i - 1) : s[j] # "\n") - 1)
    ELSE s

\* convert_to_note: title = override or first line cut to 50, content =
\* override or item content; create_note, then mark_processed
ConvertToNote(item_id, title, content, project_id) ==
    /\ LET item == get_by_id(inbox, item_id) IN
        IF item = None
        THEN /\ UNCHANGED <<notes, inbox>>
             /\ last' = Outcome("convertToNote", item_id, <<>>, "NotFound", <<>>)
        ELSE LET t == IF title = NullText \/ title = <<>>
                      THEN Truncate(FirstLine(inbox[item].content), NoteTitleCut)
                      ELSE title
                 c == TextOr(content, inbox[item].content) IN
             IF ~ValidText(t, NoteTitleMax)
             THEN /\ UNCHANGED <<notes, inbox>>
                  /\ last' = Outcome("convertToNote", item_id, <<>>, "ValidationError", <<>>)
             ELSE LET r == DoCreateNote(t, c, project_id) IN
                  /\ notes' = r[1]
                  /\ inbox' = IF r[2] = "ok" THEN mark_processed(inbox, item) ELSE inbox
                  /\ last' = Outcome("convertToNote", item_id, <<>>, r[2], <<r[3]>>)
    /\ UNCHANGED <<now, tasks, projects, contexts, pc, sess>>

\* convert_to_project: name = override or content cut to 200; create_project,
\* then mark_processed
ConvertToProject(item_id, name) ==
    /\ LET item == get_by_id(inbox, item_id) IN
        IF item = None
        THEN /\ UNCHANGED <<projects, inbox>>
             /\ last' = Outcome("convertToProject", item_id, <<>>, "NotFound", <<>>)
        ELSE LET n == TextOr(name, Truncate(inbox[item].content, ProjectNameCut)) IN
             IF ~ValidText(n, ProjectNameMax)
             THEN /\ UNCHANGED <<projects, inbox>>
                  /\ last' = Outcome("convertToProject", item_id, <<>>, "ValidationError", <<>>)
             ELSE /\ projects' = Append(projects, NewProjectRow(n))
                  /\ inbox' = mark_processed(inbox, item)
                  /\ last' = Outcome("convertToProject", item_id, <<>>, "ok",
                                     <<Len(projects) + 1>>)
    /\ UNCHANGED <<now, tasks, notes, contexts, pc, sess>>

\* -------------------------------------------------------- search_controller
\* api/v1/search.py: limit: int = Query(50, ge=1, le=100) and q min_length=2
SearchLimitDefault == 50
SearchLimitMin == 1
SearchLimitMax == 100
QueryMinLength == 2

\* (a search that forgets the deleted_at filter)
search_matches_deleted_too(query) ==
    {<<"task", id>> : id \in {i \in 1..Len(tasks) : tasks[i].title = query}}
    \cup {<<"note", id>> : id \in {i \in 1..Len(notes) : notes[i].title = query}}
    \cup {<<"project", id>> : id \in {i \in 1..Len(projects) : projects[i].name = query}}

\* search_repository.search_all before LIMIT: the live tasks, notes and
\* projects whose title (name) matches the query; a title matches a query
\* made of the same words
search_matches(query) ==
    {<<"task", id>> : id \in {i \in get_all(tasks) : tasks[i].title = query}}
    \cup {<<"note", id>> : id \in {i \in get_all(notes) : notes[i].title = query}}
    \cup {<<"project", id>> : id \in {i \in get_all(projects) : projects[i].name = query}}

\* ORDER BY rank DESC LIMIT limit: the rows in some order among equal ranks,
\* cut to limit
search_all(query, limit) ==
    LET matched == search_matches(query)
        n == IF limit < Cardinality(matched) THEN limit ELSE Cardinality(matched) IN
    {r \in [1..n -> matched] : \A i, j \in 1..n : i # j => r[i] # r[j]}

\* search_controller.search: the limit is capped at 100, the response counts
\* the returned items
search_clamp(limit) == IF limit > SearchLimitMax THEN SearchLimitMax ELSE limit

\* GET /search: the route's parameter validation, then the controller
Search(q, given, limitIn) ==
    /\ LET limit == IF given THEN limitIn ELSE SearchLimitDefault
           arg == [query |-> q, limit |-> limit, given |-> given] IN
        IF Len(q) < QueryMinLength \/ limit < SearchLimitMin \/ limit > SearchLimitMax
        THEN last' = Outcome("search", None, arg, "ValidationError", <<>>)
        ELSE \E results \in search_all(q, search_clamp(limit)) :
                last' = Outcome("search", None, arg, "ok",
                                [total_results |-> Len(results), results |-> results])
    /\ UNCHANGED <<now, tasks, projects, notes, contexts, inbox, pc, sess>>

\* ------------------------------------------------------- context_controller
ContextNames == {<<"@", "a">>, <<"@", "b">>}

ContextIds == 1..(MaxContexts + 1)

\* (get_by_name without the deleted_at filter)
get_by_name_any(ctxs, name) ==
    LET hits == {id \in 1..Len(ctxs) : ctxs[id].name = name} IN
    IF hits = {} THEN None ELSE CHOOSE id \in hits : \A other \in hits : id <= other

\* ContextRepository.get_by_name: the first live context of that name
get_by_name(ctxs, name) ==
    LET hits == {id \in 1..Len(ctxs) : ctxs[id].name = name /\ ctxs[id].deleted_at = None} IN
    IF hits = {} THEN None ELSE CHOOSE id \in hits : \A other \in hits : id <= other

\* (the contexts table without its unique index)
ContextRowNoIndex(ctxs, id) == ctxs[id].name # NullText

\* the contexts table's constraints on row id: NOT NULL name, and the partial
\* unique index idx_contexts_name_not_deleted (name) WHERE deleted_at IS NULL
ContextRowOK(ctxs, id) ==
    /\ ctxs[id].name # NullText
    /\ (ctxs[id].deleted_at = None =>
            \A other \in 1..Len(ctxs) :
                (other # id /\ ctxs[other].deleted_at = None) => ctxs[other].name # ctxs[id].name)

\* BaseRepository.create for a context: insert and commit
InsertContext(ctxs, name, description) ==
    Append(ctxs, [name |-> name, description |-> description, deleted_at |-> None])

\* (create_context with neither the pre-check nor the index in force)
CreateContextUnchecked(name, description) ==
    /\ contexts' = InsertContext(contexts, name, description)
    /\ last' = Outcome("createContext", Len(contexts) + 1, name, "ok", <<>>)
    /\ UNCHANGED <<now, tasks, projects, notes, inbox, pc, sess>>

\* create_context: the get_by_name pre-check, then repository.create
CreateContext(name, description) ==
    /\ LET existing == get_by_name(contexts, name)
           inserted == InsertContext(contexts, name, description) IN
        IF existing # None
        THEN /\ UNCHANGED contexts
             /\ last' = Outcome("createContext", None, name, "Conflict", <<>>)
        ELSE IF ContextRowOK(inserted, Len(inserted))
        THEN /\ contexts' = inserted
             /\ last' = Outcome("createContext", Len(inserted), name, "ok", <<>>)
        ELSE /\ UNCHANGED contexts
             /\ last' = Outcome("createContext", None, name, "StoreError", <<>>)
    /\ UNCHANGED <<now, tasks, projects, notes, inbox, pc, sess>>

\* ContextUpdate, with pydantic's model_fields_set
ContextUpdate ==
    {p \in [fields_set : SUBSET {"name", "description"},
            name : ContextNames \cup {NullText},
            description : {NullText, <<"d">>}] :
        /\ ("name" \notin p.fields_set => p.name = NullText)
        /\ ("description" \notin p.fields_set => p.description = NullText)}

\* (an update_context that looks the target up before it checks the name)
UpdateContextLookupFirst(context_id, patch) ==
    /\ LET existing == IF patch.name # NullText THEN get_by_name(contexts, patch.name) ELSE None
           context == get_by_id(contexts, context_id) IN
        IF context = None
        THEN /\ UNCHANGED contexts
             /\ last' = Outcome("updateContext", context_id, patch.name, "NotFound", <<>>)
        ELSE IF existing # None /\ existing # context_id
        THEN /\ UNCHANGED contexts
             /\ last' = Outcome("updateContext", context_id, patch.name, "Conflict", <<>>)
        ELSE LET updated == [contexts EXCEPT
                    ![context].name = IF "name" \in patch.fields_set THEN patch.name ELSE @,
                    ![context].description =
                        IF "description" \in patch.fields_set THEN patch.description ELSE @] IN
             IF ContextRowOK(updated, context)
             THEN /\ contexts' = updated
                  /\ last' = Outcome("updateContext", context_id, patch.name, "ok", <<>>)
             ELSE /\ UNCHANGED contexts
                  /\ last' = Outcome("updateContext", context_id, patch.name, "StoreError", <<>>)
    /\ UNCHANGED <<now, tasks, projects, notes, inbox, pc, sess>>

\* update_context: the name-conflict check, then ContextRepository.update_by_id
UpdateContext(context_id, patch) ==
    /\ LET existing == IF patch.name # NullText THEN get_by_name(contexts, patch.name) ELSE None
           context == get_by_id(contexts, context_id) IN
        IF existing # None /\ existing # context_id
        THEN /\ UNCHANGED contexts
             /\ last' = Outcome("updateContext", context_id, patch.name, "Conflict", <<>>)
        ELSE IF context = None
        THEN /\ UNCHANGED contexts
             /\ last' = Outcome("updateContext", context_id, patch.name, "NotFound", <<>>)
        ELSE LET updated == [contexts EXCEPT
                    ![context].name = IF "name" \in patch.fields_set THEN patch.name ELSE @,
                    ![context].description =
                        IF "description" \in patch.fields_set THEN patch.description ELSE @] IN
             IF ContextRowOK(updated, context)
             THEN /\ contexts' = updated
                  /\ last' = Outcome("updateContext", context_id, patch.name, "ok", <<>>)
             ELSE /\ UNCHANGED contexts
                  /\ last' = Outcome("updateContext", context_id, patch.name, "StoreError", <<>>)
    /\ UNCHANGED <<now, tasks, projects, notes, inbox, pc, sess>>

\* delete_context: ContextRepository.delete, a soft delete
DeleteContext(context_id) ==
    /\ LET context == get_by_id(contexts, context_id) IN
        IF context = None
        THEN /\ UNCHANGED contexts
             /\ last' = Outcome("deleteContext", context_id, <<>>, "NotFound", <<>>)
        ELSE /\ contexts' = [contexts EXCEPT ![context].deleted_at = now]
             /\ last' = Outcome("deleteContext", context_id, <<>>, "ok", <<>>)
    /\ UNCHANGED <<now, tasks, projects, notes, inbox, pc, sess>>

\* ------------------------------------------- two concurrent create_context
\* Each request runs create_context in its own session: the get_by_name
\* pre-check reads the committed rows, and the insert is checked against the
\* unique index when it commits.
Procs == {1, 2}

Idle == [name |-> NullText, existing |-> None, result |-> "none"]

\* create_context up to the pre-check: existing = repository.get_by_name(...)
CtxCheck(p, name) ==
    /\ pc[p] \in {"idle", "done"}
    /\ pc' = [pc EXCEPT ![p] = "checked"]
    /\ sess' = [sess EXCEPT ![p] = [name |-> name,
                                    existing |-> get_by_name(contexts, name),
                                    result |-> "none"]]
    /\ UNCHANGED <<now, tasks, projects, notes, contexts, inbox, last>>

\* the rest of create_context: HTTPException(409) when the pre-check found a
\* row, else repository.create, whose commit the store may reject with an
\* IntegrityError that nothing catches
CtxCommit(p) ==
    /\ pc[p] = "checked"
    /\ pc' = [pc EXCEPT ![p] = "done"]
    /\ LET inserted == InsertContext(contexts, sess[p].name, NullText) IN
        IF sess[p].existing # None
        THEN /\ UNCHANGED contexts
             /\ sess' = [sess EXCEPT ![p].result = "Conflict"]
        ELSE IF ContextRowOK(inserted, Len(inserted))
        THEN /\ contexts' = inserted
             /\ sess' = [sess EXCEPT ![p].result = "ok"]
        ELSE /\ UNCHANGED contexts
             /\ sess' = [sess EXCEPT ![p].result = "StoreError"]
    /\ UNCHANGED <<now, tasks, projects, notes, inbox, last>>

\* ------------------------------------------- a conversion, commit by commit
\* convert_to_task / convert_to_note / convert_to_project commit twice: the
\* derived entity is committed by its create, the item's processed_at by
\* mark_processed.  No transaction spans the two and nothing catches a failure
\* of the second.
ConvertOps == {"convertToTask", "convertToNote", "convertToProject"}

\* the create of a conversion without overrides, as
\* <<tasks', projects', notes', result, id>>
ConvertCreate(op, item) ==
    LET content == inbox[item].content IN
    CASE op = "convertToTask" ->
            IF ~ValidText(content, TaskTitleMax)
            THEN <<tasks, projects, notes, "ValidationError", None>>
            ELSE LET r == DoCreateTask(TaskCreate(content, "default", None, None)) IN
                 <<r[1], r[2], notes, r[3], r[4]>>
      [] op = "convertToNote" ->
            LET t == Truncate(FirstLine(content), NoteTitleCut) IN
            IF ~ValidText(t, NoteTitleMax)
            THEN <<tasks, projects, notes, "ValidationError", None>>
            ELSE LET r == DoCreateNote(t, content, None) IN
                 <<tasks, projects, r[1], r[2], r[3]>>
      [] OTHER ->
            LET n == Truncate(content, ProjectNameCut) IN
            IF ~ValidText(n, ProjectNameMax)
            THEN <<tasks, projects, notes, "ValidationError", None>>
            ELSE <<tasks, Append(projects, NewProjectRow(n)), notes, "ok", Len(projects) + 1>>

Converting(op, item_id, derived, before, result) ==
    [op |-> op, item |-> item_id, derived |-> derived, before |-> before, result |-> result]

\* the conversion up to and including the create's commit
ConvBegin(p, op, item_id) ==
    /\ pc[p] \in {"idle", "done"}
    /\ LET item == get_by_id(inbox, item_id) IN
        IF item = None
        THEN /\ UNCHANGED <<tasks, projects, notes>>
             /\ pc' = [pc EXCEPT ![p] = "done"]
             /\ sess' = [sess EXCEPT ![p] = Converting(op, item_id, None, None, "NotFound")]
        ELSE LET r == ConvertCreate(op, item) IN
             /\ tasks' = r[1]
             /\ projects' = r[2]
             /\ notes' = r[3]
             /\ pc' = [pc EXCEPT ![p] = IF r[4] = "ok" THEN "created" ELSE "done"]
             /\ sess' = [sess EXCEPT ![p] =
                            Converting(op, item_id, r[5], inbox[item].processed_at,
                                       IF r[4] = "ok" THEN "none" ELSE r[4])]
    /\ UNCHANGED <<now, contexts, inbox, last>>

\* inbox_repository.mark_processed(db, item): the second commit succeeds
ConvMarkProcessed(p) ==
    /\ pc[p] = "created"
    /\ inbox' = mark_processed(inbox, sess[p].item)
    /\ pc' = [pc EXCEPT ![p] = "done"]
    /\ sess' = [sess EXCEPT ![p].result = "ok"]
    /\ UNCHANGED <<now, tasks, projects, notes, contexts, last>>

\* the second commit fails (the store is unreachable, or the request dies
\* before it): the exception propagates, the first commit stays
ConvCommitFails(p) ==
    /\ pc[p] = "created"
    /\ pc' = [pc EXCEPT ![p] = "done"]
    /\ sess' = [sess EXCEPT ![p].result = "StoreError"]
    /\ UNCHANGED <<now, tasks, projects, notes, contexts, inbox, last>>

\* --------------------------------------- bulk_update_status, step by step
\* A bulk request runs in its own session (autoflush off): each get_by_id
\* reads the committed rows, the assignments stay in the session, and the one
\* db.commit() after the loop writes status and updated_at of every task in
\* updated_tasks.  Other requests commit in between.
Bulking(task_ids, status, updated_tasks, result) ==
    [task_ids |-> task_ids, status |-> status, updated_tasks |-> updated_tasks,
     result |-> result]

\* the request arrives: nothing looked up yet
BulkBegin(p, task_ids, status) ==
    /\ pc[p] \in {"idle", "done"}
    /\ pc' = [pc EXCEPT ![p] = "looking"]
    /\ sess' = [sess EXCEPT ![p] = Bulking(task_ids, status, <<>>, "none")]
    /\ UNCHANGED <<now, tasks, projects, notes, contexts, inbox, last>>

\* (a loop that commits each task as it finds it)
BulkLookupCommitting(p) ==
    /\ pc[p] = "looking"
    /\ sess[p].task_ids # <<>>
    /\ LET task == get_by_id(tasks, Head(sess[p].task_ids)) IN
        /\ sess' = [sess EXCEPT
                        ![p].task_ids = Tail(@),
                        ![p].updated_tasks = IF task # None THEN Append(@, task) ELSE @]
        /\ tasks' = IF task # None
                     THEN [tasks EXCEPT ![task].status = sess[p].status,
                                        ![task].updated_at = now]
                     ELSE tasks
    /\ UNCHANGED <<now, projects, notes, contexts, inbox, last, pc>>

\* one turn of the loop: task = get_by_id(db, task_id); a task found is
\* changed in the session only
BulkLookup(p) ==
    /\ pc[p] = "looking"
    /\ sess[p].task_ids # <<>>
    /\ LET task == get_by_id(tasks, Head(sess[p].task_ids)) IN
        sess' = [sess EXCEPT
                    ![p].task_ids = Tail(@),
                    ![p].updated_tasks = IF task # None THEN Append(@, task) ELSE @]
    /\ UNCHANGED <<now, tasks, projects, notes, contexts, inbox, last, pc>>

\* the rows of updated_tasks with the session's status and updated_at
RECURSIVE BulkFlush(_, _, _)
BulkFlush(tbl, updated_tasks, status) ==
    IF updated_tasks = <<>> THEN tbl
    ELSE BulkFlush([tbl EXCEPT ![Head(updated_tasks)].status = status,
                               ![Head(updated_tasks)].updated_at = now],
                   Tail(updated_tasks), status)

\* db.commit() after the loop: one transaction writes every changed task
BulkCommit(p) ==
    /\ pc[p] = "looking"
    /\ sess[p].task_ids = <<>>
    /\ tasks' = BulkFlush(tasks, sess[p].updated_tasks, sess[p].status)
    /\ projects' = TouchProjects(projects, tasks, sess[p].updated_tasks)
    /\ pc' = [pc EXCEPT ![p] = "done"]
    /\ sess' = [sess EXCEPT ![p].result = "ok"]
    /\ UNCHANGED <<now, notes, contexts, inbox, last>>

\* list_tasks: a reader's view, the committed live tasks with their status
ListTasks ==
    /\ last' = Outcome("listTasks", None, <<>>, "ok",
                       [id \in get_all(tasks) |-> tasks[id].status])
    /\ UNCHANGED <<now, tasks, projects, notes, contexts, inbox, pc, sess>>

\* ------------------------------------------------------------------ clock
\* time passes between requests
Tick ==
    /\ now < MaxTime
    /\ now' = now + 1
    /\ UNCHANGED <<tasks, projects, notes, contexts, inbox, last, pc, sess>>

Init ==
    /\ now = 1
    /\ tasks = <<>>
    /\ projects = <<>>
    /\ notes = <<>>
    /\ contexts = <<>>
    /\ inbox = <<>>
    /\ last = Outcome("init", None, <<>>, "ok", <<>>)
    /\ pc = [p \in Procs |-> "idle"]
    /\ sess = [p \in Procs |-> Idle]

\* ---------------------------------------------------------- specifications
\* the patches of the task specifications: status, blocker and one other field
TaskPatches ==
    {p \in TaskUpdate : /\ "project_id" \notin p.fields_set
                        /\ p.title \in {NullText, <<"b">>}
                        /\ ("title" \in p.fields_set => p.title = <<"b">>)}

StatusPatches == {p \in TaskPatches : "title" \notin p.fields_set}

BulkIdLists == UNION {[1..n -> TaskIds] : n \in 1..MaxBulk}

\* tasks under every task operation
NextTask ==
    \/ \E s \in StatusInputs, b \in {None} \cup TaskIds :
          Len(tasks) < MaxTasks /\ CreateTask(<<"a">>, s, None, b)
    \/ \E id \in TaskIds, p \in StatusPatches : UpdateTask(id, p)
    \/ \E id \in TaskIds : DeleteTask(id)
    \/ \E id \in TaskIds : CompleteTask(id)
    \/ \E id \in TaskIds : UncompleteTask(id)
    \/ \E id \in TaskIds, s \in TaskStatus : BulkUpdateStatus(<<id>>, s)
    \/ Len(inbox) < 1 /\ CreateInboxItem(<<"a">>)
    \/ \E id \in 1..2 : Len(tasks) < MaxTasks /\ ConvertToTask(id, NullText, None)

SpecTask == Init /\ [][NextTask]_vars

\* the blocked-implies-waiting rule of create_task and update_task
NextTaskRule ==
    \/ \E s \in StatusInputs, b \in {None} \cup TaskIds :
          Len(tasks) < MaxTasks /\ CreateTask(<<"a">>, s, None, b)
    \/ \E id \in TaskIds, p \in TaskPatches : UpdateTask(id, p)
    \/ \E id \in TaskIds : DeleteTask(id)

SpecTaskRule == Init /\ [][NextTaskRule]_vars

\* bulk status updates over live, deleted and absent tasks, with the clock
NextBulk ==
    \/ Tick
    \/ \E s \in StatusInputs, b \in {None} \cup TaskIds :
          Len(tasks) < MaxTasks /\ CreateTask(<<"a">>, s, None, b)
    \/ \E id \in TaskIds : DeleteTask(id)
    \/ \E ids \in BulkIdLists, s \in TaskStatus : BulkUpdateStatus(ids, s)

SpecBulk == Init /\ [][NextBulk]_vars

\* contexts, one request at a time
NextCtx ==
    \/ Tick
    \/ \E n \in ContextNames :
          Len(contexts) < MaxContexts /\ CreateContext(n, NullText)
    \/ \E id \in ContextIds, p \in ContextUpdate : UpdateContext(id, p)
    \/ \E id \in ContextIds : DeleteContext(id)

SpecCtx == Init /\ [][NextCtx]_vars

\* contexts, with two create_context requests interleaving
NextCtxConc ==
    \/ \E p \in Procs, n \in ContextNames :
          /\ Len(contexts) + Cardinality({q \in Procs : pc[q] = "checked"}) < MaxContexts
          /\ CtxCheck(p, n)
    \/ \E p \in Procs : CtxCommit(p)
    \/ \E id \in ContextIds : DeleteContext(id)

SpecCtxConc == Init /\ [][NextCtxConc]_vars

\* inbox items and their conversions, commit by commit
Derived == Len(tasks) + Len(projects) + Len(notes)

NextConv ==
    \/ Tick
    \/ \E c \in Contents : Len(inbox) < MaxInbox /\ CreateInboxItem(c)
    \/ \E id \in InboxIds : DeleteInboxItem(id)
    \/ \E p \in Procs, op \in ConvertOps, id \in InboxIds :
          Derived < MaxDerived /\ ConvBegin(p, op, id)
    \/ \E p \in Procs : ConvMarkProcessed(p)
    \/ \E p \in Procs : ConvCommitFails(p)

SpecConv == Init /\ [][NextConv]_vars

\* a text of n copies of one character
Repeat(c, n) == [i \in 1..n |-> c]

\* captured contents: one line, two lines, a leading newline, a line longer
\* than the note title cut, a text longer than a task title may be
InboxContents ==
    {<<"a">>, <<"a", "\n", "b">>, <<"\n", "a">>,
     Repeat("x", NoteTitleCut + 1), Repeat("x", TaskTitleMax + 1)}

\* a conversion request's optional title / name: absent or given
Overrides == {NullText, <<"t">>}

\* the inbox and its conversions, one request at a time
NextInbox ==
    \/ Tick
    \/ \E c \in InboxContents : Len(inbox) < MaxInbox /\ CreateInboxItem(c)
    \/ \E id \in InboxIds : DeleteInboxItem(id)
    \/ \E id \in InboxIds, t \in Overrides :
          Derived < MaxDerived /\ ConvertToTask(id, t, None)
    \/ \E id \in InboxIds, t \in Overrides :
          Derived < MaxDerived /\ ConvertToNote(id, t, NullText, None)
    \/ \E id \in InboxIds, n \in Overrides :
          Derived < MaxDerived /\ ConvertToProject(id, n)

SpecInbox == Init /\ [][NextInbox]_vars

\* ids a request to the listed inbox can name
ListedIds == 1..(MaxListed + 1)

\* the inbox listing under captures, edits, deletions and conversions
NextInboxList ==
    \/ Tick
    \/ Len(inbox) < MaxListed /\ CreateInboxItem(<<"a">>)
    \/ \E id \in ListedIds, c \in {<<"a">>, <<"b">>} : UpdateInboxItem(id, c)
    \/ \E id \in ListedIds : DeleteInboxItem(id)
    \/ \E id \in ListedIds : Len(projects) < MaxProjects /\ ConvertToProject(id, NullText)
    \/ \E include_processed \in BOOLEAN : ListInboxItems(include_processed)

SpecInboxList == Init /\ [][NextInboxList]_vars

\* patches of every shape: each field absent, explicitly null, or given
PatchShapes ==
    {p \in TaskUpdate : /\ p.title \in {NullText, <<"b">>}
                        /\ p.status \in {NoStatus, "someday"}
                        /\ p.blocked_by_task_id \in {None, 1, MaxTasks + 1}}

\* tasks under patches of every shape
NextTaskPatch ==
    \/ Len(projects) < MaxProjects /\ CreateProject(<<"p">>)
    \/ Len(tasks) < MaxTasks /\ CreateTask(<<"a">>, "default", None, None)
    \/ \E id \in TaskIds, p \in PatchShapes : UpdateTask(id, p)
    \/ \E id \in TaskIds : DeleteTask(id)

SpecTaskPatch == Init /\ [][NextTaskPatch]_vars

\* patches that carry nothing, or a title: the stored one, another one
StampPatches == {p \in TaskUpdate : p.fields_set \subseteq {"title"} /\ p.title # NullText}
                \cup {p \in TaskUpdate : p.fields_set = {}}

\* updateTask as time passes
NextTaskStamp ==
    \/ Tick
    \/ Len(tasks) < MaxTasks /\ CreateTask(<<"a">>, "default", None, None)
    \/ \E id \in TaskIds, p \in StampPatches : UpdateTask(id, p)
    \/ \E id \in TaskIds : DeleteTask(id)

SpecTaskStamp == Init /\ [][NextTaskStamp]_vars

\* the id lists of the interleaved bulk requests
BulkRaceLists == {ids \in BulkIdLists : Len(ids) <= MaxTasks}

\* the session of the bulk request under observation
Bulker == 1

\* a bulk request interleaving with creates, deletes and readers
NextBulkRace ==
    \/ Tick
    \/ Len(tasks) < MaxTasks /\ CreateTask(<<"a">>, "default", None, None)
    \/ \E id \in TaskIds : DeleteTask(id)
    \/ \E ids \in BulkRaceLists : BulkBegin(Bulker, ids, "someday")
    \/ BulkLookup(Bulker)
    \/ BulkCommit(Bulker)
    \/ ListTasks

SpecBulkRace == Init /\ [][NextBulkRace]_vars

\* patches that move a task into or out of a project
ActivityPatches == {p \in TaskUpdate : p.fields_set = {"project_id"}}

ProjectIds == 1..(MaxProjects + 1)

\* tasks under projects, by every code path that writes a task row
NextActivity ==
    \/ Tick
    \/ Len(projects) < MaxProjects /\ CreateProject(<<"p">>)
    \/ \E pid \in {None} \cup ProjectIds :
          Len(tasks) < MaxTasks /\ CreateTask(<<"a">>, "default", pid, None)
    \/ \E id \in TaskIds, p \in ActivityPatches : UpdateTask(id, p)
    \/ \E id \in TaskIds : DeleteTask(id)
    \/ \E id \in TaskIds : CompleteTask(id)
    \/ \E id \in TaskIds : UncompleteTask(id)
    \/ \E id \in TaskIds : BulkUpdateStatus(<<id>>, "someday")
    \/ Len(inbox) < MaxInbox /\ CreateInboxItem(<<"a">>)
    \/ \E id \in InboxIds, pid \in {None} \cup ProjectIds :
          Len(tasks) < MaxTasks /\ ConvertToTask(id, NullText, pid)

SpecActivity == Init /\ [][NextActivity]_vars

\* projects under every project operation
NextProject ==
    \/ Tick
    \/ \E n \in Names : Len(projects) < MaxProjects /\ CreateProject(n)
    \/ \E id \in ProjectIds, p \in ProjectUpdate : UpdateProject(id, p)
    \/ \E id \in ProjectIds : DeleteProject(id)
    \/ \E id \in ProjectIds : CompleteProject(id)

SpecProject == Init /\ [][NextProject]_vars

\* search requests over a store of tasks, notes and projects
Queries == {<<"a">>, <<"a", "b">>}

Limits == {0 - 1, 0, 1, 2, SearchLimitDefault, SearchLimitMax, SearchLimitMax + 1,
           5 * SearchLimitMax}

NextSearch ==
    \/ \E t \in Queries :
          Len(tasks) < MaxTasks /\ CreateTask(t, "default", None, None)
    \/ \E t \in Queries : Len(notes) < MaxNotes /\ CreateNote(t, NullText, None)
    \/ \E n \in Queries : Len(projects) < MaxProjects /\ CreateProject(n)
    \/ \E id \in TaskIds : DeleteTask(id)
    \/ \E q \in Queries, given \in BOOLEAN, limit \in Limits : Search(q, given, limit)

SpecSearch == Init /\ [][NextSearch]_vars

\* searches over tasks, notes and projects that are created and soft-deleted
NextSearchDel ==
    \/ Tick
    \/ \E t \in Queries :
          Len(tasks) < MaxTasks /\ CreateTask(t, "default", None, None)
    \/ \E t \in Queries : Len(notes) < MaxNotes /\ CreateNote(t, NullText, None)
    \/ \E n \in Queries : Len(projects) < MaxProjects /\ CreateProject(n)
    \/ \E id \in TaskIds : DeleteTask(id)
    \/ \E id \in 1..(MaxNotes + 1) : DeleteNote(id)
    \/ \E id \in ProjectIds : DeleteProject(id)
    \/ \E q \in Queries, limit \in {1, 2, SearchLimitDefault} : Search(q, TRUE, limit)

SpecSearchDel == Init /\ [][NextSearchDel]_vars

\* every entity type, at most MaxRows rows in the store
TotalRows == Len(tasks) + Len(projects) + Len(notes) + Len(contexts) + Len(inbox)

RowIds == 1..(MaxRows + 1)

LifeTaskPatches == {p \in TaskPatches : p.fields_set = {"title"}}

NextLife ==
    \/ Tick
    \/ TotalRows < MaxRows /\ CreateTask(<<"a">>, "default", None, None)
    \/ \E id \in RowIds, p \in LifeTaskPatches : UpdateTask(id, p)
    \/ \E id \in RowIds : DeleteTask(id)
    \/ \E id \in RowIds : CompleteTask(id)
    \/ \E id \in RowIds : UncompleteTask(id)
    \/ TotalRows < MaxRows /\ CreateProject(<<"p">>)
    \/ \E id \in RowIds : UpdateProject(id, [fields_set |-> {"name"}, name |-> <<"q">>,
                                               status |-> NoStatus])
    \/ \E id \in RowIds : DeleteProject(id)
    \/ \E id \in RowIds : CompleteProject(id)
    \/ TotalRows < MaxRows /\ CreateNote(<<"a">>, NullText, None)
    \/ \E id \in RowIds : UpdateNote(id, [fields_set |-> {"title"}, title |-> <<"b">>])
    \/ \E id \in RowIds : DeleteNote(id)
    \/ \E n \in ContextNames : TotalRows < MaxRows /\ CreateContext(n, NullText)
    \/ \E id \in RowIds, n \in ContextNames :
          UpdateContext(id, [fields_set |-> {"name"}, name |-> n, description |-> NullText])
    \/ \E id \in RowIds : DeleteContext(id)
    \/ TotalRows < MaxRows /\ CreateInboxItem(<<"a">>)
    \/ \E id \in RowIds : UpdateInboxItem(id, <<"b">>)
    \/ \E id \in RowIds : DeleteInboxItem(id)
    \/ \E id \in RowIds : TotalRows < MaxRows /\ ConvertToTask(id, NullText, None)
    \/ \E id \in RowIds : TotalRows < MaxRows /\ ConvertToNote(id, NullText, NullText, None)
    \/ \E id \in RowIds : TotalRows < MaxRows /\ ConvertToProject(id, NullText)

SpecLife == Init /\ [][NextLife]_vars

\* -------------------------------------------------------------- properties
\* a row that get_by_id must not return: absent, or soft-deleted
Dead(table, id) == id \notin 1..Len(table) \/ table[id].deleted_at # None

\* C1 (as claimed): in every reachable state every task with a non-null
\* blocked_by_task_id has status 'waiting'.
C1_BlockedImpliesWaiting ==
    \A id \in 1..Len(tasks) :
        tasks[id].blocked_by_task_id # None => tasks[id].status = "waiting"

\* C2: a createTask that carries a blocker persists status 'waiting' whatever
\* status the request supplied; one without a blocker persists the supplied
\* status, 'next' when none was supplied.
C2_CreateStatus ==
    (last.op = "createTask" /\ last.result = "ok") =>
        /\ last.id = Len(tasks)
        /\ tasks[last.id].status =
              IF last.arg.blocker THEN "waiting"
              ELSE IF last.arg.status = "default" THEN "next"
              ELSE last.arg.status
        /\ last.arg.blocker <=> tasks[last.id].blocked_by_task_id # None

C2_Witness ==
    /\ last.op = "createTask" /\ last.result = "ok"
    /\ last.arg.blocker /\ last.arg.status = "next"
    /\ tasks[last.id].status = "waiting"

\* C3: an updateTask of a live task whose patch carries a non-null blocker
\* leaves status 'waiting' whatever status the patch carried; without a
\* non-null blocker the status changes only to a status the patch supplies,
\* and no other task changes.
C3_UpdateStatus ==
    [][(now' = now /\ last'.op = "updateTask" /\ ~Dead(tasks, last'.id)) =>
        LET id == last'.id IN
        /\ (last'.arg.blocker /\ last'.result = "ok") => tasks'[id].status = "waiting"
        /\ (~last'.arg.blocker /\ tasks'[id].status # tasks[id].status) =>
              (last'.arg.status # NoStatus /\ tasks'[id].status = last'.arg.status)
        /\ last'.result # "ok" => tasks'[id] = tasks[id]
        /\ \A other \in 1..Len(tasks) : other # id => tasks'[other] = tasks[other]]_vars

C3_Witness ==
    /\ last.op = "updateTask" /\ last.result = "ok"
    /\ last.arg.blocker /\ last.arg.status = "next"
    /\ tasks[last.id].status = "waiting"

\* C4: under one-request-at-a-time createContext, updateContext and
\* deleteContext, no two live contexts have the same name.
C4_UniqueLiveNames ==
    \A a, b \in 1..Len(contexts) :
        (a # b /\ contexts[a].deleted_at = None /\ contexts[b].deleted_at = None)
            => contexts[a].name # contexts[b].name

C4_Witness ==
    /\ last.op = "updateContext" /\ last.result = "Conflict"
    /\ \E a, b \in 1..Len(contexts) :
          /\ contexts[a].name = contexts[b].name
          /\ contexts[a].deleted_at # None
          /\ contexts[b].deleted_at = None

C6_AtMostOneLive ==
    \A n \in ContextNames :
        Cardinality({id \in 1..Len(contexts) :
                        contexts[id].name = n /\ contexts[id].deleted_at = None}) <= 1

C6_Witness ==
    /\ sess[1].name = sess[2].name
    /\ sess[1].existing = None /\ sess[2].existing = None
    /\ pc[1] = "done" /\ pc[2] = "done"
    /\ {sess[1].result, sess[2].result} = {"ok", "StoreError"}

\* C7 (as claimed): the request whose insert the store rejects ends in a
\* Conflict, never in an unmapped store failure.
C7_LoserGetsConflict ==
    \A p \in Procs : pc[p] = "done" => sess[p].result \in {"ok", "Conflict"}

\* C8: once a row of any entity type is soft-deleted, get-by-id never returns
\* it and no default listing contains it, after the delete and after every
\* later step.
Hidden(table, listing, id) == get_by_id(table, id) = None /\ id \notin listing

C8_DeletedStaysHidden ==
    [][/\ \A id \in 1..Len(tasks) : tasks[id].deleted_at # None =>
              Hidden(tasks', get_all(tasks'), id)
       /\ \A id \in 1..Len(projects) : projects[id].deleted_at # None =>
              Hidden(projects', get_all(projects'), id)
       /\ \A id \in 1..Len(notes) : notes[id].deleted_at # None =>
              Hidden(notes', get_all(notes'), id)
       /\ \A id \in 1..Len(contexts) : contexts[id].deleted_at # None =>
              Hidden(contexts', get_all(contexts'), id)
       /\ \A id \in 1..Len(inbox) : inbox[id].deleted_at # None =>
              /\ Hidden(inbox', inbox_get_all(inbox', FALSE), id)
              /\ id \notin inbox_get_all(inbox', TRUE)
       /\ (last'.result = "ok" /\ now' = now) =>
              /\ last'.op = "deleteTask" => Hidden(tasks', get_all(tasks'), last'.id)
              /\ last'.op = "deleteProject" => Hidden(projects', get_all(projects'), last'.id)
              /\ last'.op = "deleteNote" => Hidden(notes', get_all(notes'), last'.id)
              /\ last'.op = "deleteContext" => Hidden(contexts', get_all(contexts'), last'.id)
              /\ last'.op = "deleteInboxItem" =>
                    Hidden(inbox', inbox_get_all(inbox', FALSE), last'.id)]_vars

C8_Witness ==
    /\ \E id \in 1..Len(contexts) : contexts[id].deleted_at # None /\ contexts[id].deleted_at < now
    /\ \E id \in 1..Len(inbox) : inbox[id].deleted_at # None
    /\ last.op = "deleteInboxItem" /\ last.result = "ok"

\* the table an operation addresses by id
AddressedTable(op) ==
    CASE op \in {"updateTask", "completeTask", "uncompleteTask", "deleteTask"} -> tasks
      [] op \in {"updateProject", "completeProject", "deleteProject"} -> projects
      [] op \in {"updateNote", "deleteNote"} -> notes
      [] op \in {"updateContext", "deleteContext"} -> contexts
      [] OTHER -> inbox

AddressedOps ==
    {"updateTask", "completeTask", "uncompleteTask", "deleteTask",
     "updateProject", "completeProject", "deleteProject",
     "updateNote", "deleteNote", "updateContext", "deleteContext",
     "updateInboxItem", "deleteInboxItem",
     "convertToTask", "convertToNote", "convertToProject"}

\* a request (not a clock tick) addressed to an absent or soft-deleted id
DeadRequest ==
    /\ now' = now
    /\ last'.op \in AddressedOps
    /\ Dead(AddressedTable(last'.op), last'.id)

\* C9 (as claimed): every mutating request addressed to an absent or
\* soft-deleted id returns NotFound and changes nothing.
C9_DeadIdNotFound ==
    [][DeadRequest => (last'.result = "NotFound" /\ UNCHANGED store)]_vars

\* C9 (amended): such a request changes nothing and returns NotFound, except
\* an updateContext whose patch names a live context, which returns Conflict.
C9_DeadIdNoChange ==
    [][DeadRequest =>
        /\ UNCHANGED store
        /\ IF /\ last'.op = "updateContext"
              /\ \E id \in 1..Len(contexts) :
                    contexts[id].name = last'.arg /\ contexts[id].deleted_at = None
           THEN last'.result = "Conflict"
           ELSE last'.result = "NotFound"]_vars

C9_Witness ==
    /\ last.op = "deleteTask" /\ last.result = "NotFound"
    /\ last.id \in 1..Len(tasks)
    /\ tasks[last.id].deleted_at # None /\ tasks[last.id].deleted_at < now

\* C10: bulkUpdateStatus(ids, S) raises nothing, returns exactly the live
\* tasks among ids, gives exactly those status S, and leaves every other
\* task as it was.
C10_BulkExactlyLive ==
    [][(now' = now /\ last'.op = "bulkUpdateStatus") =>
            LET ids == last'.arg.ids
                S == last'.arg.status
                hit == {ids[i] : i \in 1..Len(ids)} \cap
                       {id \in 1..Len(tasks) : tasks[id].deleted_at = None} IN
            /\ last'.result = "ok"
            /\ {last'.ret[i] : i \in 1..Len(last'.ret)} = hit
            /\ Len(tasks') = Len(tasks)
            /\ \A id \in hit : tasks'[id].status = S
            /\ \A id \in (1..Len(tasks)) \ hit : tasks'[id] = tasks[id]]_vars

C10_Witness ==
    /\ last.op = "bulkUpdateStatus"
    /\ Len(last.arg.ids) = 3 /\ Len(last.ret) = 2 /\ last.ret[1] # last.ret[2]
    /\ \A i \in 1..2 : tasks[last.ret[i]].status = last.arg.status
    /\ tasks[last.ret[1]].updated_at = 2

\* C11 (as claimed): a conversion call ends either with a derived entity
\* created and the item's processed_at set by that call, or with no derived
\* entity and the inbox unchanged, also when a commit fails on the way.
C11_NoPartialState ==
    [][\A p \in Procs :
        (sess'[p] # sess[p] /\ pc'[p] = "done") =>
            LET s == sess'[p] IN
            IF s.derived # None
            THEN inbox'[s.item].processed_at = now
            ELSE inbox' = inbox /\ UNCHANGED <<tasks, projects, notes>>]_vars

\* a conversion request that succeeded in this step
Converted == now' = now /\ last'.op \in ConvertOps /\ last'.result = "ok"

C13_TaskTitleIsContent ==
    [][\A id \in InboxIds :
        (Live(inbox, id) /\ ConvertToTask(id, NullText, None)) =>
            /\ Len(tasks') = Len(tasks) + 1
            /\ tasks'[Len(tasks')].title = inbox[id].content
            /\ tasks'[Len(tasks')].status = "next"]_vars

\* C14 (as claimed): convertToNote of a live item without a title override
\* creates a note titled with the content before its first newline cut to 50
\* characters, with the full content, and marks the item processed.
C14_NoteTitleIsFirstLine ==
    [][\A id \in InboxIds :
        (Live(inbox, id) /\ ConvertToNote(id, NullText, NullText, None)) =>
            /\ Len(notes') = Len(notes) + 1
            /\ notes'[Len(notes')].title = Truncate(FirstLine(inbox[id].content), NoteTitleCut)
            /\ Len(notes'[Len(notes')].title) <= NoteTitleCut
            /\ notes'[Len(notes')].content = inbox[id].content
            /\ inbox'[id].processed_at = now]_vars

\* C15: a conversion of a live item that is already processed is never
\* answered NotFound; when it succeeds it adds exactly one derived entity and
\* stamps processed_at with the current time, not earlier than the previous
\* value; a one-line item of ordinary length always succeeds.
C15_ReconversionAllowed ==
    [][(now' = now /\ last'.op \in ConvertOps /\ Live(inbox, last'.id)
            /\ inbox[last'.id].processed_at # None) =>
        LET id == last'.id IN
        /\ last'.result # "NotFound"
        /\ last'.result = "ok" =>
              /\ Len(tasks') + Len(projects') + Len(notes') = Derived + 1
              /\ inbox'[id].processed_at = now
              /\ inbox'[id].processed_at >= inbox[id].processed_at
        /\ last'.result # "ok" => UNCHANGED store
        /\ inbox[id].content = <<"a">> => last'.result = "ok"]_vars

C15_Witness ==
    /\ last.op \in ConvertOps /\ last.result = "ok"
    /\ Derived = 2 /\ Len(inbox) = 1
    /\ Len(tasks) = 1
    /\ inbox[1].processed_at = 2
    /\ tasks[1].updated_at = 1

\* C16 (as claimed): whenever a step inserts or changes a task row whose
\* project_id is P before or after the step, P.last_activity_at afterwards is
\* at or after the time of the step.
C16_TaskActivityTouchesProject ==
    [][\A P \in 1..Len(projects) :
        (\E id \in 1..Len(tasks') :
            /\ id > Len(tasks) \/ tasks'[id] # tasks[id]
            /\ \/ tasks'[id].project_id = P
               \/ (id <= Len(tasks) /\ tasks[id].project_id = P))
        => projects'[P].last_activity_at >= now]_vars

\* C17: on a live task completeTask always succeeds and leaves completed_at
\* set to the current time (also when it was set before), uncompleteTask
\* always succeeds and leaves completed_at null (also when it was null
\* before); neither touches title, status, project, blocker or another task.
C17_CompleteUncomplete ==
    [][(now' = now /\ last'.op \in {"completeTask", "uncompleteTask"}
            /\ Live(tasks, last'.id)) =>
        LET id == last'.id IN
        /\ last'.result = "ok"
        /\ last'.op = "completeTask" => tasks'[id].completed_at = now
        /\ last'.op = "uncompleteTask" => tasks'[id].completed_at = None
        /\ [tasks'[id] EXCEPT !.completed_at = None, !.updated_at = None]
              = [tasks[id] EXCEPT !.completed_at = None, !.updated_at = None]
        /\ \A other \in 1..Len(tasks) : other # id => tasks'[other] = tasks[other]]_vars

\* completeTask has succeeded at time 1 on one task and at time 2 on another
C17_Witness ==
    /\ last.op = "completeTask" /\ last.result = "ok"
    /\ Len(tasks) = 2
    /\ tasks[1].completed_at = 1
    /\ tasks[2].completed_at = 2 /\ last.id = 2

\* C18: updateProject of a live project sets completed_at (to the current
\* time) exactly when it succeeds with a patch of status 'completed' on a
\* project whose completed_at is null; in every other case completed_at
\* stays as it was.
C18_UpdateProjectCompletedAt ==
    [][(now' = now /\ last'.op = "updateProject" /\ Live(projects, last'.id)) =>
        LET id == last'.id IN
        IF /\ last'.result = "ok"
           /\ last'.arg = "completed"
           /\ projects[id].completed_at = None
        THEN projects'[id].completed_at = now
        ELSE projects'[id].completed_at = projects[id].completed_at]_vars

\* a patch with status 'completed' at time 2 on a project completed at time 1
C18_Witness ==
    /\ last.op = "updateProject" /\ last.result = "ok" /\ last.arg = "completed"
    /\ projects[last.id].completed_at = 1
    /\ projects[last.id].last_activity_at = 2
    /\ projects[last.id].status = "completed"

\* C19: completeProject of a live project, whatever its status and
\* completed_at, leaves status 'completed' and completed_at and
\* last_activity_at at the current time, so a repeated call moves
\* completed_at to the later time.
C19_CompleteProjectRestamps ==
    [][(now' = now /\ last'.op = "completeProject" /\ Live(projects, last'.id)) =>
        LET id == last'.id IN
        /\ last'.result = "ok"
        /\ projects'[id].status = "completed"
        /\ projects'[id].completed_at = now
        /\ projects'[id].last_activity_at = now
        /\ projects'[id].name = projects[id].name
        /\ projects'[id].deleted_at = None]_vars

C19_Witness ==
    /\ last.op = "completeProject" /\ last.result = "ok"
    /\ now = 2
    /\ projects[last.id].completed_at = 2
    /\ projects[last.id].last_activity_at = 2
    /\ projects[last.id].status = "completed"

\* C20 (as claimed): a search with a limit above 100 runs with the limit
\* clamped to 100; a limit of 0 or below is rejected; an accepted search
\* reports total_results equal to the number of results, at most the clamped
\* limit; the default limit is 50.
C20_LimitClamped ==
    [][last'.op = "search" =>
        LET limit == last'.arg.limit IN
        /\ ~last'.arg.given => limit = SearchLimitDefault
        /\ limit <= 0 => last'.result = "ValidationError"
        /\ (limit > SearchLimitMax /\ Len(last'.arg.query) >= QueryMinLength) =>
              last'.result = "ok"
        /\ last'.result = "ok" =>
              /\ last'.ret.total_results = Len(last'.ret.results)
              /\ last'.ret.total_results <= search_clamp(limit)]_vars

\* the table a search result row of the given type comes from
SearchedTable(type) ==
    CASE type = "task" -> tasks
      [] type = "note" -> notes
      [] OTHER -> projects

C22_DefaultListing ==
    [][/\ (now' = now /\ last'.op = "listInboxItems" /\ last'.arg = FALSE) =>
              LET l == last'.ret IN
              /\ {l[i] : i \in 1..Len(l)} =
                    {id \in 1..Len(inbox) : /\ inbox[id].processed_at = None
                                             /\ inbox[id].deleted_at = None}
              /\ \A i, j \in 1..Len(l) : i # j => l[i] # l[j]
              /\ \A i, j \in 1..Len(l) :
                    inbox[l[i]].created_at < inbox[l[j]].created_at => i < j
              /\ UNCHANGED store
       /\ (now' = now /\ last'.op = "updateInboxItem") =>
              /\ Len(inbox') = Len(inbox)
              /\ \A id \in 1..Len(inbox) :
                    /\ inbox'[id].processed_at = inbox[id].processed_at
                    /\ inbox'[id].created_at = inbox[id].created_at
                    /\ inbox'[id].deleted_at = inbox[id].deleted_at
              /\ list_inbox_items(inbox', FALSE) = list_inbox_items(inbox, FALSE)
              /\ (last'.result = "ok" /\ Live(inbox, last'.id)) =>
                    \E c \in {<<"a">>, <<"b">>} : inbox'[last'.id].content = c]_vars

\* a default listing of two items captured at different times, while a
\* processed and edited item stays out of it
C22_Witness ==
    /\ last.op = "listInboxItems" /\ last.arg = FALSE
    /\ Len(last.ret) = 2
    /\ inbox[last.ret[1]].created_at < inbox[last.ret[2]].created_at
    /\ \E id \in 1..Len(inbox) :
          inbox[id].processed_at # None /\ inbox[id].content = <<"b">>

\* C23 (as claimed): every successful updateTask of a live task, whatever the
\* patch, leaves the task's updated_at at the time of the update.
C23_UpdateRefreshesUpdatedAt ==
    [][(now' = now /\ last'.op = "updateTask" /\ last'.result = "ok") =>
        tasks'[last'.id].updated_at = now]_vars

\* C24 (as claimed): an updateTask of a live task whose blocker and project,
\* if any, are stored rows leaves every field the patch carries at the patch's value, an
\* explicit null included, and every other field as it was, except status,
\* which is 'waiting' when the patch carries a non-null blocker.
C24_PatchAppliedExactly ==
    [][\A p \in PatchShapes :
        (/\ last'.op = "updateTask"
         /\ Live(tasks, last'.id)
         /\ p.blocked_by_task_id \in {None} \cup 1..Len(tasks)
         /\ p.project_id \in {None} \cup 1..Len(projects)
         /\ UpdateTask(last'.id, p)) =>
            LET old == tasks[last'.id]
                new == tasks'[last'.id]
                has(f) == f \in p.fields_set IN
            /\ new.title = IF has("title") THEN p.title ELSE old.title
            /\ new.status = IF p.blocked_by_task_id # None THEN "waiting"
                             ELSE IF has("status") THEN p.status ELSE old.status
            /\ new.project_id = IF has("project_id") THEN p.project_id ELSE old.project_id
            /\ new.blocked_by_task_id =
                  IF has("blocked_by_task_id") THEN p.blocked_by_task_id
                  ELSE old.blocked_by_task_id
            /\ new.completed_at = old.completed_at
            /\ new.deleted_at = old.deleted_at]_vars

\* the tasks a bulk session has found so far
Found(p) == {sess[p].updated_tasks[i] : i \in 1..Len(sess[p].updated_tasks)}

\* the step in which the bulk session commits
BulkCommitStep == pc[Bulker] = "looking" /\ pc'[Bulker] = "done"

\* C25: the committed task rows change status only in the commit step of the
\* bulk request, and that one step gives every task the request found the
\* new status and updated_at and touches no other task; the arrival of the
\* request and its lookups leave the committed rows alone, and a reader gets
\* the committed rows.
C25_BulkCommitsTogether ==
    [][/\ BulkCommitStep =>
              /\ Len(tasks') = Len(tasks)
              /\ \A id \in Found(Bulker) :
                    /\ tasks'[id].status = sess[Bulker].status
                    /\ tasks'[id].updated_at = now
              /\ \A id \in (1..Len(tasks)) \ Found(Bulker) : tasks'[id] = tasks[id]
       /\ (pc'[Bulker] = "looking" /\ sess' # sess) => tasks' = tasks
       /\ (\E id \in 1..Len(tasks) : tasks'[id].status # tasks[id].status) => BulkCommitStep
       /\ (last' # last /\ last'.op = "listTasks") =>
              /\ last'.ret = [id \in get_all(tasks) |-> tasks[id].status]
              /\ UNCHANGED store]_vars

\* the request has committed two tasks at time 2, both with the new status,
\* after a reader listed both with the old one
C25_Witness ==
    /\ pc[Bulker] = "done" /\ sess[Bulker].result = "ok"
    /\ Cardinality(Found(Bulker)) = MaxTasks
    /\ \A id \in Found(Bulker) :
          tasks[id].status = "someday" /\ tasks[id].updated_at = MaxTime
    /\ last.op = "listTasks"
    /\ DOMAIN last.ret = Found(Bulker)
    /\ \A id \in Found(Bulker) : last.ret[id] = "next"

\* C26 (as claimed): the commit of a bulk request changes neither status nor
\* updated_at of a task that was soft-deleted after the request looked it up.
C26_BulkSkipsDeletedInFlight ==
    [][BulkCommitStep =>
        \A id \in Found(Bulker) :
            tasks[id].deleted_at # None =>
                /\ tasks'[id].status = tasks[id].status
                /\ tasks'[id].updated_at = tasks[id].updated_at]_vars

\* the deleted_at of every stored row, once set, is the same after the step
DeletedAtKept ==
    /\ \A id \in 1..Len(tasks) :
          tasks[id].deleted_at # None => tasks'[id].deleted_at = tasks[id].deleted_at
    /\ \A id \in 1..Len(projects) :
          projects[id].deleted_at # None => projects'[id].deleted_at = projects[id].deleted_at
    /\ \A id \in 1..Len(notes) :
          notes[id].deleted_at # None => notes'[id].deleted_at = notes[id].deleted_at
    /\ \A id \in 1..Len(contexts) :
          contexts[id].deleted_at # None => contexts'[id].deleted_at = contexts[id].deleted_at
    /\ \A id \in 1..Len(inbox) :
          inbox[id].deleted_at # None => inbox'[id].deleted_at = inbox[id].deleted_at

\* a request (not a clock tick) addressed to the id of a soft-deleted row
DeletedRequest ==
    /\ DeadRequest
    /\ last'.id \in 1..Len(AddressedTable(last'.op))

C28_CompletedAtNeverCleared ==
    [][/\ \A id \in 1..Len(projects) :
              projects[id].completed_at # None => projects'[id].completed_at # None
       /\ (now' = now /\ last'.op = "updateProject" /\ last'.result = "ok"
                /\ Live(projects, last'.id)) =>
              LET old == projects[last'.id]
                  new == projects'[last'.id] IN
              /\ last'.arg \in {"active", "on_hold"} =>
                    new.status = last'.arg /\ new.completed_at = old.completed_at
              /\ (last'.arg = "completed" /\ old.completed_at # None) =>
                    new.status = "completed" /\ new.completed_at = old.completed_at]_vars

\* a live project taken out of 'completed' by updateProject, completed_at
\* still set
C28_Witness ==
    /\ last.op = "updateProject" /\ last.result = "ok"
    /\ last.arg \in {"active", "on_hold"}
    /\ Live(projects, last.id)
    /\ projects[last.id].status = last.arg
    /\ projects[last.id].completed_at # None

\* C29: an updateContext whose patch names a live context with another id
\* fails with Conflict and changes nothing, whether the target is live,
\* soft-deleted or absent; when no live context with another id holds the
\* name (the target itself or only soft-deleted contexts do), an absent or
\* soft-deleted target gets NotFound and nothing changes.
C29_ConflictBeforeNotFound ==
    [][(now' = now /\ last'.op = "updateContext") =>
        LET id == last'.id
            name == last'.arg
            taken == /\ name # NullText
                     /\ \E c \in 1..Len(contexts) :
                           /\ c # id
                           /\ contexts[c].name = name
                           /\ contexts[c].deleted_at = None IN
        /\ taken => (last'.result = "Conflict" /\ contexts' = contexts)
        /\ (~taken /\ Dead(contexts, id)) =>
              (last'.result = "NotFound" /\ contexts' = contexts)
        /\ last'.result = "Conflict" => taken]_vars

\* a Conflict answered to an update of a soft-deleted context whose patch
\* carries another name, one a live context holds
C29_Witness ==
    /\ last.op = "updateContext" /\ last.result = "Conflict"
    /\ last.id \in 1..Len(contexts)
    /\ contexts[last.id].deleted_at # None
    /\ contexts[last.id].name # last.arg

\* C30 (as claimed): a successful deleteTask of B changes, apart from B's
\* deleted_at and trigger-kept updated_at, no field of any task, so a task
\* blocked by B keeps its reference and status; and a createTask, or an
\* updateTask of a live task, that carries a non-null blocker succeeds
\* whatever task id the blocker is.
C30_BlockerNeverChecked ==
    [][/\ (now' = now /\ last'.op = "deleteTask" /\ last'.result = "ok") =>
              /\ Len(tasks') = Len(tasks)
              /\ \A id \in 1..Len(tasks) :
                    [tasks'[id] EXCEPT !.deleted_at = None, !.updated_at = None]
                        = [tasks[id] EXCEPT !.deleted_at = None, !.updated_at = None]
              /\ \A id \in 1..Len(tasks) : id # last'.id => tasks'[id] = tasks[id]
       /\ (now' = now /\ last'.op = "createTask" /\ last'.arg.blocker) =>
              last'.result = "ok"
       /\ (now' = now /\ last'.op = "updateTask" /\ Live(tasks, last'.id)
                /\ last'.arg.blocker) =>
              last'.result = "ok"]_vars

Spec == SpecLife
====
